---- MODULE Spec2Model ----
(***************************************************************************)
(* FindMyDog server (src/server.js): one simulated dog walking inside a    *)
(* polygon during the 10:00-01:59 window, ticked every second, flushed to  *)
(* Firestore every three seconds, started and stopped by a 30 s watcher    *)
(* and by boot().                                                          *)
(*                                                                         *)
(* Abstractions.                                                           *)
(*  - Wall-clock time is <<day, hour>>; days are counted from a Monday     *)
(*    (day 0), a date key 'YYYY-MM-DD' is the day number.                  *)
(*  - Coordinates are integers in units of 1e-4 degree, relative to        *)
(*    (42.3320, -71.1770); BC_BOUNDARY is the source polygon rounded to    *)
(*    that grid.  Lengths are metres; a model tick covers the distance     *)
(*    speedMps * dtSeconds with speeds scaled so that one tick is a few    *)
(*    grid units.                                                          *)
(*  - headingRad is quantised to multiples of pi/2 (0..3).  A random       *)
(*    increment smaller than one quantum may or may not carry the heading  *)
(*    to the neighbouring multiple.                                        *)
(*  - Every await of a store operation is a separate step: the operation   *)
(*    is issued in one action and completes (takes effect, or fails) in a  *)
(*    later one, with any other callback in between.                       *)
(*  - Firestore: get() and set() fail only when the store is unreachable;  *)
(*    update() also fails (NOT_FOUND) when the document does not exist.    *)
(***************************************************************************)
EXTENDS Integers, Sequences, FiniteSets, TLC

\* ------------------------------------------------------------------ bounds
MaxClock    == 1    \* clock advances after boot, with ticks and flushes
MaxClockLife == 3   \* clock advances after boot, lifecycle only
MaxPolls    == 1    \* watcher callbacks suspended in an await at once
MaxFlights  == 1    \* flush writes outstanding at once
MaxFlightsHour == 2 \* flush writes outstanding at once, within one hour
MaxAttempts == 1    \* boot attempts that may fail
MaxTimers   == 2    \* armed intervals of a kind; heading timeouts are counted up to it

\* Math.random() returns k / RandDen for some k in 0 .. RandDen - 1
RandDen == 2
\* the draws <<lat, lng, speed, heading>> of one synthesis, as numerators k:
\* one whose point falls inside the polygon, one whose point never does
RandomDraws == { <<1, 1, 0, 0>>, <<0, 0, 1, 1>> }

\* ------------------------------------------------------------------ config
\* DOGS (ids; name and image are functions of the id)
DOGS == <<"dog1", "dog2", "dog3", "dog4", "dog5", "dog6", "dog7">>

\* BC_BOUNDARY as <<lat, lng>> pairs on the 1e-4 degree grid
BC_BOUNDARY ==
  << <<2, 8>>,    <<9, 3>>,     <<27, 8>>,   <<27, 34>>,  <<16, 44>>,
     <<25, 52>>,  <<52, 48>>,   <<70, 72>>,  <<78, 102>>, <<80, 123>>,
     <<65, 123>>, <<49, 130>>,  <<41, 114>>, <<32, 130>>, <<18, 128>>,
     <<9, 43>>,   <<5, 17>> >>

\* randomPointInPolygon's fixed fallback { lat: 42.3355, lng: -71.1685 }
FallbackPoint == [lat |-> 35, lng |-> 85]

DOG_TICK_S == 1      \* DOG_TICK_MS / 1000, the dtSeconds passed to tickDog

\* ------------------------------------------------------------------ clock
Hours == 0..23
\* the hours at which the clock is observed: one in each phase of the day
\* (the tail of the window, the inactive window, the window) and the last
\* hour before midnight
ObservedHours == <<0, 2, 10, 23>>
NextHour(h) == IF \E i \in 1..(Len(ObservedHours) - 1) : ObservedHours[i] = h
                 THEN ObservedHours[(CHOOSE i \in 1..Len(ObservedHours) : ObservedHours[i] = h) + 1]
                 ELSE ObservedHours[1]
FirstDay == 6        \* the run starts on a Sunday (day 0 is a Monday)
JanFirst == 3        \* day number of 1 January of the year of the run
LastDay == FirstDay + ((IF MaxClock > MaxClockLife THEN MaxClock ELSE MaxClockLife) + 3) \div 4
Days == FirstDay..LastDay

\* new Date(): an instant
Date(d, h) == [day |-> d, hour |-> h]

\* formatDate(d): the calendar day of the instant, the time of day dropped
formatDate(d) == d.day

\* new Date(dateKey + 'T00:00:00'): local midnight of that day
parseLocalMidnight(dateKey) == Date(dateKey, 0)

\* hour >= 10 || hour < 2
isActiveAt(h) == h >= 10 \/ h < 2

\* spawnDateKey(): NoKey stands for null
NoKey == -1
\* a spawnDateKey that keeps the calendar date in the tail of the window
spawnDateKeyAtToday(now) ==
  IF now.hour >= 10 \/ now.hour < 2 THEN formatDate(now) ELSE NoKey
spawnDateKeyAt(now) ==
  IF now.hour >= 10 THEN formatDate(now)
  ELSE IF now.hour < 2 THEN formatDate(Date(now.day - 1, now.hour))
  ELSE NoKey

\* ------------------------------------------------------------------ geometry
\* symmetric integer division (JS division, truncated to the grid)
Quot(a, b) == IF a >= 0 THEN a \div b ELSE -((-a) \div b)

\* metres per grid unit of latitude: 111320 m per degree, 1e-4 degree per unit
MetersPerLatUnit == 11
\* metres per grid unit of longitude at the polygon's latitude:
\* 111320 * cos(42.336 deg) * 1e-4
MetersPerLngUnit(lat) == 8

metersToLat(m) == Quot(m, MetersPerLatUnit)
metersToLng(m, lat) == Quot(m, MetersPerLngUnit(lat))

\* cos and sin of k * pi/2, times 1000
CosMilli == <<1000, 0, -1000, 0>>
SinMilli == <<0, 1000, 0, -1000>>
Headings == 0..(Len(CosMilli) - 1)
\* 2 * pi and pi in heading quanta
TwoPi == Len(CosMilli)
Pi    == TwoPi \div 2
Cos(h) == CosMilli[h + 1]
Sin(h) == SinMilli[h + 1]

Min(a, b) == IF a <= b THEN a ELSE b
Max(a, b) == IF a >= b THEN a ELSE b

RECURSIVE BboxFrom(_, _, _)
BboxFrom(poly, i, b) ==
  IF i > Len(poly) THEN b
  ELSE BboxFrom(poly, i + 1,
         [minLat |-> Min(b.minLat, poly[i][1]), maxLat |-> Max(b.maxLat, poly[i][1]),
          minLng |-> Min(b.minLng, poly[i][2]), maxLng |-> Max(b.maxLng, poly[i][2])])

polygonBbox(poly) ==
  BboxFrom(poly, 2, [minLat |-> poly[1][1], maxLat |-> poly[1][1],
                     minLng |-> poly[1][2], maxLng |-> poly[1][2]])

\* one edge of the ray cast: (yi > lat) !== (yj > lat) &&
\*   lng < ((xj - xi) * (lat - yi)) / (yj - yi) + xi, with the division
\* cleared by multiplying both sides by (yj - yi), whose sign is known
EdgeHit(lat, lng, pi, pj) ==
  LET yi == pi[1]  xi == pi[2]  yj == pj[1]  xj == pj[2] IN
  /\ (yi > lat) # (yj > lat)
  /\ IF yj > yi
       THEN (lng - xi) * (yj - yi) < (xj - xi) * (lat - yi)
       ELSE (lng - xi) * (yj - yi) > (xj - xi) * (lat - yi)

RECURSIVE RayCast(_, _, _, _, _, _)
RayCast(lat, lng, poly, i, j, inside) ==
  IF i > Len(poly) THEN inside
  ELSE RayCast(lat, lng, poly, i + 1, i,
               IF EdgeHit(lat, lng, poly[i], poly[j]) THEN ~inside ELSE inside)

pointInPolygon(lat, lng, poly) == RayCast(lat, lng, poly, 1, Len(poly), FALSE)

\* b.min + Math.random() * (b.max - b.min) in the bounding box
BoxSample(poly, k, l) ==
  LET b == polygonBbox(poly) IN
  [lat |-> b.minLat + Quot(k * (b.maxLat - b.minLat), RandDen),
   lng |-> b.minLng + Quot(l * (b.maxLng - b.minLng), RandDen)]

\* randomPointInPolygon(poly) when every try draws <<k, l>>: the sample if it
\* is inside, the fallback after the tries are used up otherwise
randomPointInPolygon(poly, k, l) ==
  LET p == BoxSample(poly, k, l) IN
  IF pointInPolygon(p.lat, p.lng, poly) THEN p ELSE FallbackPoint


\* ------------------------------------------------------------------ schedule
\* Date.getDay(): 0 = Sunday .. 6 = Saturday (day 0 of the model is a Monday)
getDay(d) == (d.day + 1) % 7

\* getWeekKey(date): ISO week number of the Thursday of the date's week
getWeekKey(date) ==
  LET dayNum   == IF getDay(date) = 0 THEN 7 ELSE getDay(date)
      thursday == date.day + 4 - dayNum
      weekNo   == (thursday - JanFirst + 1 + 6) \div 7     \* Math.ceil(x / 7)
  IN weekNo

\* getDayOfWeek(date): Monday = 0 .. Sunday = 6
getDayOfWeek(date) == IF getDay(date) = 0 THEN 6 ELSE getDay(date) - 1

\* the orders [...DOGS].sort(() => Math.random() - 0.5) is sampled at
Shuffles ==
  { DOGS, <<"dog3", "dog1", "dog5", "dog2", "dog7", "dog4", "dog6">> }

RosterIds == { DOGS[i] : i \in 1..Len(DOGS) }

\* DOGS.find(d => d.id === schedule[dayOfWeek]) || DOGS[0]
dogForSchedule(schedule, dayOfWeek) ==
  IF dayOfWeek + 1 \in DOMAIN schedule /\ schedule[dayOfWeek + 1] \in RosterIds
    THEN schedule[dayOfWeek + 1]
    ELSE DOGS[1]

\* ------------------------------------------------------------------ state
\* the week after the first day: one day of each name, Monday to Sunday
RosterDays == (FirstDay + 1)..(FirstDay + 7)
DateKeys == (FirstDay - 1)..Max(LastDay, FirstDay + 7)
WeekKeys == { getWeekKey(parseLocalMidnight(k)) : k \in DateKeys }

Boot  == 0
Polls == 1..MaxPolls
Procs == {Boot} \cup Polls

VARIABLES
  day, hour,       \* the wall clock
  elapsed,         \* clock advances since the process started
  polled,          \* the watcher has sampled the clock since it last advanced
  storeUp,         \* the store is reachable
  wasActive,       \* let wasActive
  attempts,        \* boot()'s attempts
  dog, dirty,      \* let dog, let dirty
  tickTimer, writeTimer,          \* handles, 0 for null
  tickIntervals, writeIntervals,  \* the armed setInterval handles
  headingTimers,   \* pending scheduleHeadingChange timeouts
  procs,           \* boot() and the watcher callbacks suspended in an await
  flights,         \* flushToFirestore writes outstanding
  dogsDb, schedDb, metaDb,        \* collections dogs, weeklySchedules, meta/currentDog
  lastWrite,       \* history: per date key, the last write to its document that
                   \* completed: "none", "set", "setFailed" or "update"
  flushRun,        \* history: flush calls since the last mutation
  sleep            \* history: the watcher's last handled transition

clockVars == <<day, hour, elapsed, polled>>
timerVars == <<tickTimer, writeTimer, tickIntervals, writeIntervals, headingTimers>>
storeVars == <<dogsDb, schedDb, metaDb>>
histVars  == <<lastWrite, flushRun, sleep>>
vars == <<day, hour, elapsed, polled, storeUp, wasActive, attempts, dog, dirty,
          tickTimer, writeTimer, tickIntervals, writeIntervals, headingTimers,
          procs, flights, dogsDb, schedDb, metaDb, lastWrite, flushRun, sleep>>

now == Date(day, hour)
isActiveHours == isActiveAt(hour)
spawnDateKey == spawnDateKeyAt(now)
\* Date.now(), in days
DateNow == day

\* dog = null
NoDog == [dateKey |-> NoKey, dogId |-> "", lat |-> 0, lng |-> 0,
          speedMps |-> 0, headingRad |-> 0, lastUpdateMs |-> 0]
\* a document that does not exist
NoDoc == [exists |-> FALSE, dateKey |-> NoKey, dogId |-> "", lat |-> 0, lng |-> 0,
          speedMps |-> 0, headingRad |-> 0, lastUpdateMs |-> 0]
\* hasSchedule: doc.data().schedule is not undefined
NoSchedule == [exists |-> FALSE, hasSchedule |-> FALSE, schedule |-> <<>>]
NoMeta == [exists |-> FALSE, dateKey |-> NoKey, active |-> FALSE]

\* the document { ...dog } written by ref.set
DocOf(d) == [exists |-> TRUE, dateKey |-> d.dateKey, dogId |-> d.dogId,
             lat |-> d.lat, lng |-> d.lng, speedMps |-> d.speedMps,
             headingRad |-> d.headingRad, lastUpdateMs |-> d.lastUpdateMs]

\* a suspended async call: where it waits, and its locals
Idle == [pc |-> "idle", dateKey |-> NoKey, weekKey |-> 0, shuffled |-> <<>>,
         dogId |-> "", newDoc |-> NoDoc, nowActive |-> FALSE]

\* (1.75 + Math.random() * 0.5) mph, in metres per model tick
MphToMetersPerTick == 200
SpeedSample(k) == Quot((175 * RandDen + 50 * k) * MphToMetersPerTick, 100 * RandDen)

\* Math.random() * Math.PI * 2, in heading quanta
HeadingSample(k) == Quot(TwoPi * k, RandDen)

\* the random draws of a fresh dog: randomPointInPolygon(BC_BOUNDARY), the speed
\* and the heading
SpawnSamples ==
  { [lat |-> randomPointInPolygon(BC_BOUNDARY, r[1], r[2]).lat,
     lng |-> randomPointInPolygon(BC_BOUNDARY, r[1], r[2]).lng,
     speedMps |-> SpeedSample(r[3]), headingRad |-> HeadingSample(r[4])] : r \in RandomDraws }

\* a freshly synthesised dog (both the fallback and the creation branch)
FreshDogs(dateKey, dogId) ==
  { [dateKey |-> dateKey, dogId |-> dogId, lat |-> s.lat, lng |-> s.lng,
     speedMps |-> s.speedMps, headingRad |-> s.headingRad,
     lastUpdateMs |-> DateNow] : s \in SpawnSamples }

\* the smallest handle not in use
FreshHandle(used) == CHOOSE n \in 1..(Cardinality(used) + 1) : n \notin used


\* ------------------------------------------------------------------ helpers
\* what a caller of startLoop() does when it returns: boot() returns, the
\* watcher callback records wasActive = nowActive
Return(p) ==
  /\ procs' = [procs EXCEPT ![p] = IF p = Boot THEN [Idle EXCEPT !.pc = "done"] ELSE Idle]
  /\ wasActive' = IF p = Boot THEN wasActive ELSE procs[p].nowActive
  /\ UNCHANGED attempts

\* what a caller of startLoop() does when it rejects: boot() counts the
\* attempt and waits, the watcher callback ends in an unhandled rejection
CanThrow(p) == p = Boot => attempts < MaxAttempts
\* a watcher callback that records the sampled level although startLoop rejected
ThrowRecordsLevel(p) ==
  /\ procs' = [procs EXCEPT ![p] = IF p = Boot THEN [Idle EXCEPT !.pc = "backoff"] ELSE Idle]
  /\ attempts' = IF p = Boot THEN attempts + 1 ELSE attempts
  /\ wasActive' = IF p = Boot THEN wasActive ELSE procs[p].nowActive
Throw(p) ==
  /\ procs' = [procs EXCEPT ![p] = IF p = Boot THEN [Idle EXCEPT !.pc = "backoff"] ELSE Idle]
  /\ attempts' = IF p = Boot THEN attempts + 1 ELSE attempts
  /\ UNCHANGED wasActive

\* Math.min(attempts * 5000, 30000), in seconds
BootWait == Min(attempts * 5, 30)

Goto(p, rec) ==
  /\ procs' = [procs EXCEPT ![p] = rec]
  /\ UNCHANGED <<wasActive, attempts>>

\* stopLoop()
stopLoop ==
  /\ tickIntervals'  = tickIntervals \ {tickTimer}
  /\ tickTimer'      = 0
  /\ writeIntervals' = writeIntervals \ {writeTimer}
  /\ writeTimer'     = 0

\* publishMeta(dateKey)'s write, when it completes
publishMeta(dateKey) ==
  metaDb' = IF storeUp
              THEN [exists |-> TRUE, dateKey |-> dateKey, active |-> dateKey # NoKey]
              ELSE metaDb

\* the record of a call of startLoop() at its first await
startLoopEntry(base, key) ==
  IF key = NoKey
    THEN [base EXCEPT !.pc = "pubNull"]
    ELSE [base EXCEPT !.pc = "schedGet", !.dateKey = key,
                      !.weekKey = getWeekKey(parseLocalMidnight(key))]

\* startLoop() up to its first await: stopLoop(), spawnDateKey(), and either
\* dog = null; publishMeta(null) or the schedule read of getDogForDate
startLoop(p, base) ==
  /\ stopLoop
  /\ dog' = IF spawnDateKey = NoKey THEN NoDog ELSE dog
  /\ flushRun' = IF spawnDateKey = NoKey THEN "none" ELSE flushRun
  /\ procs' = [procs EXCEPT ![p] = startLoopEntry(base, spawnDateKey)]
  /\ UNCHANGED headingTimers

\* ------------------------------------------------------------------ init
\* the state after the module has loaded and boot() has called startLoop(),
\* on day d at hour h, with the weeklySchedules collection holding `stored`
InitFrom(d, h, stored) ==
  /\ day = d
  /\ elapsed = 0
  /\ hour = h
  /\ polled = TRUE
  /\ storeUp \in BOOLEAN
  /\ wasActive = isActiveAt(h)
  /\ attempts = 0
  /\ dog = NoDog
  /\ dirty = FALSE
  /\ tickTimer = 0 /\ writeTimer = 0
  /\ tickIntervals = {} /\ writeIntervals = {}
  /\ headingTimers = 0
  /\ procs = [p \in Procs |->
                IF p = Boot
                  THEN startLoopEntry(Idle, spawnDateKeyAt(Date(d, h)))
                  ELSE Idle]
  /\ flights = <<>>
  /\ dogsDb = [k \in DateKeys |-> NoDoc]
  /\ schedDb = stored
  /\ metaDb = NoMeta
  /\ lastWrite = [k \in DateKeys |-> "none"]
  /\ flushRun = "none"
  /\ sleep = "awake"

NoSchedules == [w \in WeekKeys |-> NoSchedule]

Init == \E i \in 1..Len(ObservedHours) : InitFrom(FirstDay, ObservedHours[i], NoSchedules)

\* ------------------------------------------------------------------ environment
ClockAdvance(limit) ==
  /\ polled
  /\ elapsed < limit
  /\ elapsed' = elapsed + 1
  /\ hour' = NextHour(hour)
  /\ day' = IF NextHour(hour) < hour THEN day + 1 ELSE day
  /\ polled' = FALSE
  /\ UNCHANGED <<storeUp, wasActive, attempts, dog, dirty, timerVars, procs,
                 flights, storeVars, histVars>>

StoreFail ==
  /\ storeUp
  /\ storeUp' = FALSE
  /\ UNCHANGED <<clockVars, wasActive, attempts, dog, dirty, timerVars, procs,
                 flights, storeVars, histVars>>

StoreRecover ==
  /\ ~storeUp
  /\ storeUp' = TRUE
  /\ UNCHANGED <<clockVars, wasActive, attempts, dog, dirty, timerVars, procs,
                 flights, storeVars, histVars>>

\* ------------------------------------------------------------------ watcher
FreeSlots == { p \in Polls : procs[p].pc = "idle" }
FreeSlot == CHOOSE p \in FreeSlots : \A q \in FreeSlots : p <= q

\* a watcher that acts on the sampled level instead of the edge
WatcherOnLevel ==
  LET nowActive == isActiveHours IN
  /\ polled' = TRUE
  /\ \/ /\ ~nowActive
        /\ FreeSlots # {}
        /\ stopLoop
        /\ dog' = NoDog
        /\ procs' = [procs EXCEPT ![FreeSlot] =
                       [Idle EXCEPT !.pc = "deactPub", !.nowActive = nowActive]]
        /\ flushRun' = "none"
        /\ sleep' = "cleared"
        /\ UNCHANGED <<day, hour, elapsed, storeUp, wasActive, attempts, dirty,
                       headingTimers, flights, storeVars, lastWrite>>
     \/ /\ nowActive
        /\ FreeSlots # {}
        /\ startLoop(FreeSlot, [Idle EXCEPT !.nowActive = nowActive])
        /\ sleep' = "awake"
        /\ UNCHANGED <<day, hour, elapsed, storeUp, wasActive, attempts, dirty,
                       flights, storeVars, lastWrite>>

\* the setInterval callback of the watcher, up to its first await
Watcher ==
  LET nowActive == isActiveHours IN
  /\ polled' = TRUE
  /\ \/ /\ wasActive /\ ~nowActive
        /\ FreeSlots # {}
        /\ stopLoop
        /\ dog' = NoDog
        /\ procs' = [procs EXCEPT ![FreeSlot] =
                       [Idle EXCEPT !.pc = "deactPub", !.nowActive = nowActive]]
        /\ flushRun' = "none"
        /\ sleep' = "cleared"
        /\ UNCHANGED <<day, hour, elapsed, storeUp, wasActive, attempts, dirty,
                       headingTimers, flights, storeVars, lastWrite>>
     \/ /\ ~wasActive /\ nowActive
        /\ FreeSlots # {}
        /\ startLoop(FreeSlot, [Idle EXCEPT !.nowActive = nowActive])
        /\ sleep' = "awake"
        /\ UNCHANGED <<day, hour, elapsed, storeUp, wasActive, attempts, dirty,
                       flights, storeVars, lastWrite>>
     \/ /\ wasActive = nowActive
        /\ wasActive' = nowActive
        /\ UNCHANGED <<day, hour, elapsed, storeUp, attempts, dog, dirty, timerVars,
                       procs, flights, storeVars, histVars>>

\* the watcher's await publishMeta(null) completes; wasActive = nowActive
DeactPubDone(p) ==
  /\ procs[p].pc = "deactPub"
  /\ publishMeta(NoKey)
  /\ procs' = [procs EXCEPT ![p] = Idle]
  /\ wasActive' = procs[p].nowActive
  /\ sleep' = IF storeUp /\ sleep # "awake" THEN "published" ELSE sleep
  /\ UNCHANGED <<clockVars, storeUp, attempts, dog, dirty, timerVars, flights,
                 dogsDb, schedDb, lastWrite, flushRun>>


\* ------------------------------------------------------------------ startLoop
\* getOrCreateWeeklySchedule: await ref.get() completes
SchedGetDone(p) ==
  LET me  == procs[p]
      dow == getDayOfWeek(parseLocalMidnight(me.dateKey)) IN
  /\ me.pc = "schedGet"
  /\ \/ /\ ~storeUp                     \* the read rejects: startLoop rejects
        /\ CanThrow(p)
        /\ Throw(p)
     \/ /\ storeUp /\ schedDb[me.weekKey].exists
        /\ schedDb[me.weekKey].hasSchedule
        /\ Goto(p, [me EXCEPT !.pc = "dogGet",
                       !.dogId = dogForSchedule(schedDb[me.weekKey].schedule, dow)])
     \/ /\ storeUp /\ schedDb[me.weekKey].exists
        /\ ~schedDb[me.weekKey].hasSchedule   \* schedule[dayOfWeek]: TypeError
        /\ CanThrow(p)
        /\ Throw(p)
     \/ /\ storeUp /\ ~schedDb[me.weekKey].exists
        /\ \E shuffled \in Shuffles :
             Goto(p, [me EXCEPT !.pc = "schedSet", !.shuffled = shuffled])
  /\ UNCHANGED <<clockVars, storeUp, dog, dirty, timerVars, flights, storeVars, histVars>>

\* getOrCreateWeeklySchedule: await ref.set(...) completes
SchedSetDone(p) ==
  LET me  == procs[p]
      dow == getDayOfWeek(parseLocalMidnight(me.dateKey)) IN
  /\ me.pc = "schedSet"
  /\ \/ /\ ~storeUp
        /\ CanThrow(p)
        /\ Throw(p)
        /\ UNCHANGED schedDb
     \/ /\ storeUp
        /\ schedDb' = [schedDb EXCEPT ![me.weekKey] =
                         [exists |-> TRUE, hasSchedule |-> TRUE, schedule |-> me.shuffled]]
        /\ Goto(p, [me EXCEPT !.pc = "dogGet", !.shuffled = <<>>,
                       !.dogId = dogForSchedule(me.shuffled, dow)])
  /\ UNCHANGED <<clockVars, storeUp, dog, dirty, timerVars, flights, dogsDb, metaDb,
                 histVars>>

\* the dog hydrated from a stored document
Hydrated(dateKey, d, dogId) ==
  [dateKey |-> dateKey,
   dogId |-> IF d.dogId # "" THEN d.dogId ELSE dogId,
   lat |-> d.lat, lng |-> d.lng, speedMps |-> d.speedMps, headingRad |-> d.headingRad,
   lastUpdateMs |-> IF d.lastUpdateMs # 0 THEN d.lastUpdateMs ELSE DateNow]

\* loadOrCreateDog: await ref.get() completes
DogGetDone(p) ==
  LET me == procs[p] IN
  /\ me.pc = "dogGet"
  /\ \/ /\ ~storeUp                     \* catch: in-memory fallback, return
        /\ \E d \in FreshDogs(me.dateKey, me.dogId) : dog' = d
        /\ Goto(p, [me EXCEPT !.pc = "pubKey"])
     \/ /\ storeUp /\ dogsDb[me.dateKey].exists
        /\ dog' = Hydrated(me.dateKey, dogsDb[me.dateKey], me.dogId)
        /\ Goto(p, [me EXCEPT !.pc = "pubKey"])
     \/ /\ storeUp /\ ~dogsDb[me.dateKey].exists
        /\ \E d \in FreshDogs(me.dateKey, me.dogId) :
             /\ dog' = d
             /\ Goto(p, [me EXCEPT !.pc = "dogSet", !.newDoc = DocOf(d)])
  /\ flushRun' = "none"
  /\ UNCHANGED <<clockVars, storeUp, dirty, timerVars, flights, storeVars, lastWrite,
                 sleep>>

\* loadOrCreateDog: await ref.set({ ...dog, ... }) completes
DogSetDone(p) ==
  LET me == procs[p] IN
  /\ me.pc = "dogSet"
  /\ \/ /\ storeUp
        /\ dogsDb' = [dogsDb EXCEPT ![me.dateKey] = me.newDoc]
        /\ lastWrite' = [lastWrite EXCEPT ![me.dateKey] = "set"]
        /\ UNCHANGED <<dirty, flushRun>>
     \/ /\ ~storeUp                     \* catch: dirty = true
        /\ dirty' = TRUE
        /\ flushRun' = IF flushRun = "issued" THEN "failed" ELSE flushRun
        /\ lastWrite' = [lastWrite EXCEPT ![me.dateKey] = "setFailed"]
        /\ UNCHANGED dogsDb
  /\ Goto(p, [me EXCEPT !.pc = "pubKey", !.newDoc = NoDoc])
  /\ UNCHANGED <<clockVars, storeUp, dog, timerVars, flights, schedDb, metaDb, sleep>>

\* startLoop: await publishMeta(dateKey) completes; scheduleHeadingChange(),
\* the two setInterval calls, and the log line that reads dog.dogName
PubKeyDone(p) ==
  LET me == procs[p]
      t  == FreshHandle(tickIntervals)
      w  == FreshHandle(writeIntervals) IN
  /\ me.pc = "pubKey"
  /\ Cardinality(tickIntervals) < MaxTimers
  /\ Cardinality(writeIntervals) < MaxTimers
  /\ publishMeta(me.dateKey)
  /\ headingTimers' = Min(headingTimers + 1, MaxTimers)
  /\ tickTimer' = t
  /\ tickIntervals' = tickIntervals \cup {t}
  /\ writeTimer' = w
  /\ writeIntervals' = writeIntervals \cup {w}
  /\ \/ /\ dog # NoDog
        /\ Return(p)
     \/ /\ dog = NoDog                  \* TypeError: startLoop rejects
        /\ CanThrow(p)
        /\ Throw(p)
  /\ UNCHANGED <<clockVars, storeUp, dog, dirty, flights, dogsDb, schedDb, histVars>>

\* startLoop: await publishMeta(null) completes; return
PubNullDone(p) ==
  /\ procs[p].pc = "pubNull"
  /\ publishMeta(NoKey)
  /\ Return(p)
  /\ UNCHANGED <<clockVars, storeUp, dog, dirty, timerVars, flights, dogsDb, schedDb,
                 histVars>>

\* boot(): the backoff timeout elapses, the loop calls startLoop() again
BootRetry ==
  /\ procs[Boot].pc = "backoff"
  /\ startLoop(Boot, Idle)
  /\ UNCHANGED <<clockVars, storeUp, wasActive, attempts, dirty, flights, storeVars,
                 lastWrite, sleep>>

\* ------------------------------------------------------------------ tick
\* the moves of tickDog: the candidate position
NextLat(d, dt) == d.lat + metersToLat(Quot(d.speedMps * dt * Cos(d.headingRad), 1000))
NextLng(d, dt) == d.lng + metersToLng(Quot(d.speedMps * dt * Sin(d.headingRad), 1000), d.lat)

\* (Math.random() - 0.5) * 0.6 and (Math.random() - 0.5) * (Math.PI / 2), in
\* heading quanta
Jitters == {-1, 0, 1}
Turns   == {-1, 0, 1}

\* a tickDog that commits the candidate without testing it
tickDogUnchecked(dt) ==
  IF dog = NoDog \/ ~isActiveHours
    THEN UNCHANGED <<dog, dirty, flushRun>>
    ELSE /\ dog' = [dog EXCEPT !.lat = NextLat(dog, dt), !.lng = NextLng(dog, dt),
                               !.lastUpdateMs = DateNow]
         /\ dirty' = TRUE
         /\ flushRun' = "none"

\* a tickDog that does not consult the clock
tickDogAnyHour(dt) ==
  IF dog = NoDog
    THEN UNCHANGED <<dog, dirty, flushRun>>
    ELSE /\ IF pointInPolygon(NextLat(dog, dt), NextLng(dog, dt), BC_BOUNDARY)
              THEN dog' = [dog EXCEPT !.lat = NextLat(dog, dt), !.lng = NextLng(dog, dt),
                                      !.lastUpdateMs = DateNow]
              ELSE \E j \in Jitters :
                     dog' = [dog EXCEPT !.headingRad = (dog.headingRad + Pi + j) % TwoPi,
                                        !.lastUpdateMs = DateNow]
         /\ dirty' = TRUE
         /\ flushRun' = "none"

\* tickDog(dtSeconds)
tickDog(dt) ==
  IF dog = NoDog \/ ~isActiveHours
    THEN UNCHANGED <<dog, dirty, flushRun>>
    ELSE /\ IF pointInPolygon(NextLat(dog, dt), NextLng(dog, dt), BC_BOUNDARY)
              THEN dog' = [dog EXCEPT !.lat = NextLat(dog, dt), !.lng = NextLng(dog, dt),
                                      !.lastUpdateMs = DateNow]
              ELSE \E j \in Jitters :
                     dog' = [dog EXCEPT !.headingRad = (dog.headingRad + Pi + j) % TwoPi,
                                        !.lastUpdateMs = DateNow]
         /\ dirty' = TRUE
         /\ flushRun' = "none"

\* an armed tick interval fires
Tick ==
  /\ tickIntervals # {}
  /\ tickDog(DOG_TICK_S)
  /\ UNCHANGED <<clockVars, storeUp, wasActive, attempts, timerVars, procs, flights,
                 storeVars, lastWrite, sleep>>

\* the timeout of scheduleHeadingChange fires, and re-arms itself
scheduleHeadingChange ==
  /\ headingTimers > 0
  /\ IF dog # NoDog /\ isActiveHours
       THEN /\ \E turn \in Turns :
                 dog' = [dog EXCEPT !.headingRad = (dog.headingRad + turn + TwoPi) % TwoPi]
            /\ dirty' = TRUE
            /\ flushRun' = "none"
       ELSE UNCHANGED <<dog, dirty, flushRun>>
  /\ headingTimers' = headingTimers
  /\ UNCHANGED <<clockVars, storeUp, wasActive, attempts, tickTimer, writeTimer,
                 tickIntervals, writeIntervals, procs, flights, storeVars, lastWrite,
                 sleep>>

\* ------------------------------------------------------------------ flush
\* the fields flushToFirestore passes to update()
Snapshot(d) == [key |-> d.dateKey, lat |-> d.lat, lng |-> d.lng,
                headingRad |-> d.headingRad, speedMps |-> d.speedMps,
                lastUpdateMs |-> d.lastUpdateMs]

\* a flushToFirestore that leaves dirty set when it issues its write
flushToFirestoreKeepsDirty(limit) ==
  IF dog = NoDog \/ ~dirty \/ ~isActiveHours
    THEN UNCHANGED <<dirty, flights, flushRun>>
    ELSE /\ Len(flights) < limit
         /\ dirty' = dirty
         /\ flights' = Append(flights, Snapshot(dog))
         /\ flushRun' = "issued"

\* flushToFirestore(), up to its await
flushToFirestore(limit) ==
  IF dog = NoDog \/ ~dirty \/ ~isActiveHours
    THEN UNCHANGED <<dirty, flights, flushRun>>
    ELSE /\ Len(flights) < limit
         /\ dirty' = FALSE
         /\ flights' = Append(flights, Snapshot(dog))
         /\ flushRun' = "issued"

\* an armed flush interval fires
Flush(limit) ==
  /\ writeIntervals # {}
  /\ flushToFirestore(limit)
  /\ UNCHANGED <<clockVars, storeUp, wasActive, attempts, dog, timerVars, procs,
                 storeVars, lastWrite, sleep>>

Remove(seq, i) == [k \in 1..(Len(seq) - 1) |-> IF k < i THEN seq[k] ELSE seq[k + 1]]

\* flushToFirestore: await update(...) completes
FlushDone(i) ==
  LET f == flights[i] IN
  /\ i \in 1..Len(flights)
  /\ \/ /\ storeUp /\ dogsDb[f.key].exists
        /\ dogsDb' = [dogsDb EXCEPT ![f.key] =
                        [@ EXCEPT !.lat = f.lat, !.lng = f.lng,
                                  !.headingRad = f.headingRad, !.speedMps = f.speedMps,
                                  !.lastUpdateMs = f.lastUpdateMs]]
        /\ lastWrite' = [lastWrite EXCEPT ![f.key] = "update"]
        /\ UNCHANGED <<dirty, flushRun>>
     \/ /\ ~(storeUp /\ dogsDb[f.key].exists)    \* catch: dirty = true
        /\ dirty' = TRUE
        /\ flushRun' = IF flushRun = "issued" THEN "failed" ELSE flushRun
        /\ UNCHANGED <<dogsDb, lastWrite>>
  /\ flights' = Remove(flights, i)
  /\ UNCHANGED <<clockVars, storeUp, wasActive, attempts, dog, timerVars, procs,
                 schedDb, metaDb, sleep>>

\* ------------------------------------------------------------------ spec
\* the lifecycle: the clock, the store, the watcher, boot and startLoop
Lifecycle ==
  \/ StoreFail
  \/ StoreRecover
  \/ Watcher
  \/ \E p \in Polls : DeactPubDone(p)
  \/ \E p \in Procs : SchedGetDone(p)
  \/ \E p \in Procs : SchedSetDone(p)
  \/ \E p \in Procs : DogGetDone(p)
  \/ \E p \in Procs : DogSetDone(p)
  \/ \E p \in Procs : PubKeyDone(p)
  \/ \E p \in Procs : PubNullDone(p)
  \/ BootRetry

Next ==
  \/ ClockAdvance(MaxClock)
  \/ Lifecycle
  \/ Tick
  \/ scheduleHeadingChange
  \/ Flush(MaxFlights)
  \/ \E i \in 1..MaxFlights : FlushDone(i)

Spec == Init /\ [][Next]_vars

\* the lifecycle alone, over a longer day: ticks, heading changes and flushes
\* write only dog's fields, dirty and the dogs documents' fields, which no
\* lifecycle step reads
NextLife ==
  \/ ClockAdvance(MaxClockLife)
  \/ Lifecycle

SpecLife == Init /\ [][NextLife]_vars

\* one hour of the window after a boot at 10:00: boot's startLoop, the store
\* failing and recovering, ticks, heading changes and overlapping flushes
InitHour == Init /\ hour = 10

NextHourly ==
  \/ StoreFail
  \/ StoreRecover
  \/ SchedGetDone(Boot)
  \/ SchedSetDone(Boot)
  \/ DogGetDone(Boot)
  \/ DogSetDone(Boot)
  \/ PubKeyDone(Boot)
  \/ BootRetry
  \/ Tick
  \/ scheduleHeadingChange
  \/ Flush(MaxFlightsHour)
  \/ \E i \in 1..MaxFlightsHour : FlushDone(i)

SpecHour == InitHour /\ [][NextHourly]_vars

\* the walk alone: the process hydrated its dog from a document a previous run
\* left in the store, at any grid point inside the polygon, with any heading
\* and either speed; startLoop has returned and the timers are armed
WalkKey == FirstDay
InsidePoints ==
  LET b == polygonBbox(BC_BOUNDARY) IN
  { pt \in (b.minLat..b.maxLat) \X (b.minLng..b.maxLng) :
      pointInPolygon(pt[1], pt[2], BC_BOUNDARY) }
StoredDogs ==
  { [exists |-> TRUE, dateKey |-> WalkKey,
     dogId |-> dogForSchedule(DOGS, getDayOfWeek(parseLocalMidnight(WalkKey))),
     lat |-> pt[1], lng |-> pt[2], speedMps |-> SpeedSample(k), headingRad |-> h,
     lastUpdateMs |-> WalkKey] :
       pt \in InsidePoints, k \in 0..(RandDen - 1), h \in Headings }

InitWalk ==
  /\ day = FirstDay /\ hour = 10 /\ elapsed = 0 /\ polled = TRUE
  /\ storeUp = TRUE
  /\ wasActive = TRUE
  /\ attempts = 0
  /\ \E d \in StoredDogs :
       /\ dogsDb = [k \in DateKeys |-> IF k = WalkKey THEN d ELSE NoDoc]
       /\ dog = Hydrated(WalkKey, d, d.dogId)
  /\ dirty = FALSE
  /\ tickTimer = 1 /\ writeTimer = 1
  /\ tickIntervals = {1} /\ writeIntervals = {1}
  /\ headingTimers = 1
  /\ procs = [p \in Procs |-> IF p = Boot THEN [Idle EXCEPT !.pc = "done"] ELSE Idle]
  /\ flights = <<>>
  /\ schedDb = [w \in WeekKeys |->
                  IF w = getWeekKey(parseLocalMidnight(WalkKey))
                    THEN [exists |-> TRUE, hasSchedule |-> TRUE, schedule |-> DOGS]
                    ELSE NoSchedule]
  /\ metaDb = [exists |-> TRUE, dateKey |-> WalkKey, active |-> TRUE]
  /\ lastWrite = [k \in DateKeys |-> "none"]
  /\ flushRun = "none"
  /\ sleep = "awake"

NextWalk ==
  \/ Tick
  \/ scheduleHeadingChange

SpecWalk == InitWalk /\ [][NextWalk]_vars

\* boot() alone, started at any hour of any day of the run: startLoop reads
\* spawnDateKey() and loads the dog of that key, or publishes null
InitKey == \E d \in Days, h \in Hours : InitFrom(d, h, NoSchedules)

NextKey ==
  \/ StoreFail
  \/ StoreRecover
  \/ SchedGetDone(Boot)
  \/ SchedSetDone(Boot)
  \/ DogGetDone(Boot)
  \/ DogSetDone(Boot)
  \/ PubKeyDone(Boot)
  \/ PubNullDone(Boot)
  \/ BootRetry

\* the end of the window: the process boots at 00:00 and runs through the
\* 02:00 deactivation, with ticks and heading changes and no flushes
InitTail == InitFrom(FirstDay, 0, NoSchedules)

NextTail ==
  \/ ClockAdvance(MaxClock)
  \/ Lifecycle
  \/ Tick
  \/ scheduleHeadingChange

SpecTail == InitTail /\ [][NextTail]_vars

SpecKey == InitKey /\ [][NextKey]_vars

\* the start of the window: the process has booted at 02:00, the clock
\* reaches 10:00 and the watcher activates.  The watcher's interval keeps
\* firing and every store operation awaited completes or fails, hence the
\* weak fairness; the store and the clock are left free.
InitWake == InitFrom(FirstDay, 2, NoSchedules)

NextWake ==
  \/ ClockAdvance(MaxClock)
  \/ StoreFail
  \/ StoreRecover
  \/ Watcher
  \/ PubNullDone(Boot)
  \/ \E p \in Polls : SchedGetDone(p)
  \/ \E p \in Polls : SchedSetDone(p)
  \/ \E p \in Polls : DogGetDone(p)
  \/ \E p \in Polls : DogSetDone(p)
  \/ \E p \in Polls : PubKeyDone(p)

FairWake ==
  /\ WF_vars(Watcher)
  /\ WF_vars(PubNullDone(Boot))
  /\ \A p \in Polls :
       /\ WF_vars(SchedGetDone(p))
       /\ WF_vars(SchedSetDone(p))
       /\ WF_vars(DogGetDone(p))
       /\ WF_vars(DogSetDone(p))
       /\ WF_vars(PubKeyDone(p))

SpecWake == InitWake /\ [][NextWake]_vars /\ FairWake

\* the lifecycle with the store reachable throughout: every read and every
\* write, those of publishMeta included, succeeds
InitPub == Init /\ storeUp

NextPub ==
  \/ ClockAdvance(MaxClockLife)
  \/ Watcher
  \/ \E p \in Polls : DeactPubDone(p)
  \/ \E p \in Procs : SchedGetDone(p)
  \/ \E p \in Procs : SchedSetDone(p)
  \/ \E p \in Procs : DogGetDone(p)
  \/ \E p \in Procs : DogSetDone(p)
  \/ \E p \in Procs : PubKeyDone(p)
  \/ \E p \in Procs : PubNullDone(p)

SpecPub == InitPub /\ [][NextPub]_vars

\* boot() at 10:00 on each day of a week, the week's schedule record already
\* in the store: well formed, too short, naming an unknown id, or without a
\* schedule field
StoredSchedules ==
  { [exists |-> TRUE, hasSchedule |-> TRUE, schedule |-> sch] :
      sch \in Shuffles \cup { <<"dog3", "dog1">>,
                              <<"dog3", "dog1", "rex", "dog2", "dog7", "dog4", "dog6">> } }
  \cup { [exists |-> TRUE, hasSchedule |-> FALSE, schedule |-> <<>>] }

InitRoster ==
  \E d \in RosterDays, doc \in StoredSchedules :
    InitFrom(d, 10, [w \in WeekKeys |->
                       IF w = getWeekKey(parseLocalMidnight(d)) THEN doc ELSE NoSchedule])

NextRoster ==
  \/ StoreFail
  \/ StoreRecover
  \/ SchedGetDone(Boot)
  \/ DogGetDone(Boot)
  \/ DogSetDone(Boot)
  \/ PubKeyDone(Boot)
  \/ BootRetry

SpecRoster == InitRoster /\ [][NextRoster]_vars

\* ------------------------------------------------------------------ claims
\* a call of startLoop, or the watcher's deactivation branch, not yet finished
InProgress(p) == procs[p].pc \notin {"idle", "done", "backoff"}
Transitions == { p \in Procs : InProgress(p) }
\* nothing of the lifecycle is pending: the watcher has sampled the current
\* hour, and boot and every watcher callback have run to their end
Quiescent == polled /\ \A p \in Procs : procs[p].pc \in {"idle", "done"}

\* C1: no instance exists while the activity clock reports inactive.  Stated
\* for the quiescent states only (the watcher has seen the inactive hour and
\* no transition is pending), so that the 30 s the watcher needs to notice
\* the hour is not counted against the code.
C1_NoDogWhileInactive == (~isActiveHours /\ Quiescent) => dog = NoDog

LastFlushed == dogsDb[dog.dateKey]
DiffersFromFlushed ==
  /\ lastWrite[dog.dateKey] = "update"
  /\ <<dog.lat, dog.lng, dog.headingRad, dog.speedMps>> #
       <<LastFlushed.lat, LastFlushed.lng, LastFlushed.headingRad, LastFlushed.speedMps>>

\* C2: with a live instance, dirty is true whenever position, heading or
\* speed differ from what the last successful flush wrote.  Stated for the
\* states with no flush write outstanding: flushToFirestore clears dirty
\* before its write and sets it again when the write fails, and that window
\* is not counted against the code.
C2_DirtyWhenDiverged ==
  (dog # NoDog /\ flights = <<>> /\ DiffersFromFlushed) => dirty

\* C3: after loadOrCreateDog's creation write failed, a flush whose write
\* completes while the store accepts writes, with the instance live and the
\* clock active, leaves a record under the date key.
C3_FlushRetriesCreation ==
  [][\A i \in 1..MaxFlightsHour :
       (/\ FlushDone(i)
        /\ storeUp /\ dog # NoDog /\ isActiveHours
        /\ lastWrite[flights[i].key] = "setFailed")
       => dogsDb'[flights[i].key].exists]_vars

\* C4: at most one transition handler (a call of startLoop by boot or by the
\* watcher, or the watcher's deactivation branch) is in progress at a time.
C4_TransitionsSerialized == Cardinality(Transitions) <= 1

\* C5: once the watcher has handled the deactivation, with the instance
\* absent and nothing of the lifecycle pending, no heading timeout chain is
\* alive during the inactive window; and activation cycles never leave more
\* than one chain.
C5_HeadingTimerOnlyWhileActive ==
  /\ (sleep # "awake" /\ ~isActiveHours /\ Quiescent /\ dog = NoDog) => headingTimers = 0
  /\ headingTimers <= 1

\* C6: a call of startLoop whose schedule read completes while the store is
\* unreachable goes on to the dog read or to the publish that precedes the
\* timers; it does not reject.
C6_UnreachableStoreStillActivates ==
  [][\A p \in Procs :
       (procs[p].pc = "schedGet" /\ ~storeUp /\ procs'[p] # procs[p])
       => procs'[p].pc \in {"dogGet", "pubKey"}]_vars

\* C7, as stated: once a flush has issued its write, and until the next tick,
\* heading change or load, dirty is false, so that a second call of
\* flushToFirestore returns at its guard.
C7_SecondFlushIsNoOp == flushRun \in {"issued", "failed"} => ~dirty

\* C7, amended: the same, as long as no store write has failed since the
\* first call issued its write.
C7_SecondFlushIsNoOpUnlessFailed == flushRun = "issued" => ~dirty

\* C7 witness: the first flush's write has completed, the instance is live,
\* the clock active and the flush interval armed for the second call.
C7_Witness ==
  /\ flushRun = "issued" /\ flights = <<>>
  /\ dog # NoDog /\ isActiveHours /\ writeIntervals # {}
  /\ lastWrite[dog.dateKey] = "update"

\* C8: from the watcher's handling of the deactivation until its next
\* activation, no tick or flush interval is armed and the instance is absent;
\* once its publish succeeded, the pointer is { dateKey: null, active: false }.
C8_AsleepUntilActivation ==
  /\ sleep # "awake" => (tickIntervals = {} /\ writeIntervals = {} /\ dog = NoDog)
  /\ sleep = "published" => metaDb = [exists |-> TRUE, dateKey |-> NoKey, active |-> FALSE]

\* C9: a poll that samples the level already recorded in wasActive changes
\* nothing: not the instance, not a timer, not the store, not a pending call.
C9_PollWithoutEdgeChangesNothing ==
  [][(Watcher /\ wasActive = isActiveHours)
       => UNCHANGED <<wasActive, attempts, dog, dirty, timerVars, procs, flights,
                      storeVars>>]_vars

\* C9 witness: the watcher has polled after midnight with the instance of the
\* day before live, and nothing is pending.
C9_Witness ==
  /\ dog # NoDog /\ wasActive /\ Quiescent
  /\ hour = 0 /\ day = dog.dateKey + 1
  /\ tickIntervals # {} /\ writeIntervals # {}

\* C10: the position of the live instance is inside the polygon after any
\* number of ticks and heading changes.
C10_CommittedPositionsInside ==
  dog # NoDog => pointInPolygon(dog.lat, dog.lng, BC_BOUNDARY)

\* C10 witness: a tick has committed a move away from the stored position.
C10_Witness ==
  /\ dog # NoDog /\ dirty
  /\ <<dog.lat, dog.lng>> # <<dogsDb[dog.dateKey].lat, dogsDb[dog.dateKey].lng>>
  /\ pointInPolygon(dog.lat, dog.lng, BC_BOUNDARY)

\* C11: when boot's startLoop returns, with nothing else of the lifecycle
\* pending and the watcher's recorded level equal to the clock's, the
\* controller matches the clock: an instance is live and both intervals are
\* armed if the clock is active, no instance if it is not.
C11_BootCompletesMatchingClock ==
  [][(/\ procs[Boot].pc # "done" /\ procs'[Boot].pc = "done"
      /\ Quiescent' /\ wasActive' = isActiveHours')
       => IF isActiveHours'
            THEN dog' # NoDog /\ tickTimer' # 0 /\ writeTimer' # 0
            ELSE dog' = NoDog]_vars

\* the date key boot's pending call of startLoop() read
BootKey == IF procs[Boot].pc = "pubNull" THEN NoKey ELSE procs[Boot].dateKey

\* C12: at hour h of date D spawnDateKey() is D when h >= 10, the date
\* before D when h < 2 and absent when 2 <= h < 10; it is absent exactly when
\* isActiveHours() is false; and it is the key startLoop goes on with.
C12_SpawnDateKeyTable ==
  /\ hour >= 10 => spawnDateKey = day
  /\ hour < 2 => spawnDateKey = day - 1
  /\ (2 <= hour /\ hour < 10) => spawnDateKey = NoKey
  /\ (spawnDateKey = NoKey) <=> ~isActiveHours
  /\ InProgress(Boot) => BootKey = spawnDateKey
  /\ dog # NoDog => dog.dateKey = spawnDateKey

\* C12 witness: at 01:00 on the day after D boot has loaded the dog of D.
C12_Witness ==
  /\ hour = 1 /\ day = FirstDay + 1
  /\ procs[Boot].pc = "done" /\ dog # NoDog /\ dog.dateKey = FirstDay

\* C13: once a schedule record exists under a week key, no step overwrites
\* it with another permutation.
C13_ScheduleNeverOverwritten ==
  [][\A w \in WeekKeys : schedDb[w].exists => schedDb'[w] = schedDb[w]]_vars

\* C14: a publishMeta whose write fails lets its caller go on: startLoop
\* still arms the heading timeout and both intervals, and the watcher's
\* deactivation still ends with no instance and wasActive recorded inactive.
C14_PublishFailureSwallowed ==
  [][\A p \in Procs :
       /\ (procs[p].pc = "pubKey" /\ ~storeUp /\ procs'[p] # procs[p])
            => /\ tickTimer' # 0 /\ tickTimer' \in tickIntervals'
               /\ writeTimer' # 0 /\ writeTimer' \in writeIntervals'
               /\ headingTimers' > 0
       /\ (procs[p].pc = "deactPub" /\ ~storeUp /\ procs'[p] # procs[p])
            => /\ procs'[p].pc = "idle"
               /\ wasActive' = FALSE
               /\ dog' = NoDog]_vars

\* what getDogForDate is to resolve for boot's pending call: the id at the
\* day's position (Monday = 0) of the stored schedule, the first roster
\* entry when there is no such id
StoredSchedule == schedDb[procs[Boot].weekKey]
DayIndex == (procs[Boot].dateKey - (FirstDay + 1)) % 7
ResolvedId ==
  IF /\ StoredSchedule.hasSchedule
     /\ DayIndex + 1 \in DOMAIN StoredSchedule.schedule
     /\ StoredSchedule.schedule[DayIndex + 1] \in RosterIds
    THEN StoredSchedule.schedule[DayIndex + 1]
    ELSE DOGS[1]

\* C15: a schedule read that finds the week's record resolves the id at the
\* day's position of the stored schedule, and the first roster entry when
\* the stored schedule is missing, too short or names an unknown id; it does
\* not reject.
C15_ResolveIdentity ==
  [][(/\ procs[Boot].pc = "schedGet" /\ storeUp /\ StoredSchedule.exists
      /\ procs'[Boot] # procs[Boot])
       => (procs'[Boot].pc = "dogGet" /\ procs'[Boot].dogId = ResolvedId)]_vars

\* the fields no tick and no heading change may touch
Identity(d) == <<d.dateKey, d.dogId, d.speedMps>>
Position(d) == <<d.lat, d.lng>>

\* C16: a tick with no instance or an inactive clock changes nothing;
\* otherwise it either moves to the candidate position (inside the polygon)
\* with the heading kept, or keeps the position and changes the heading, and
\* either way sets dirty and lastUpdateMs; a heading change keeps the
\* position; neither changes dateKey, dogId or speedMps.
C16_TickFrame ==
  [][/\ Tick =>
          IF dog = NoDog \/ ~isActiveHours
            THEN UNCHANGED <<dog, dirty>>
            ELSE /\ dog' # NoDog /\ dirty' /\ dog'.lastUpdateMs = DateNow
                 /\ Identity(dog') = Identity(dog)
                 /\ \/ /\ dog'.headingRad = dog.headingRad
                       /\ Position(dog') = <<NextLat(dog, DOG_TICK_S), NextLng(dog, DOG_TICK_S)>>
                       /\ pointInPolygon(dog'.lat, dog'.lng, BC_BOUNDARY)
                    \/ /\ Position(dog') = Position(dog)
                       /\ dog'.headingRad # dog.headingRad
     /\ scheduleHeadingChange =>
          IF dog = NoDog \/ ~isActiveHours
            THEN UNCHANGED <<dog, dirty>>
            ELSE /\ dog' # NoDog /\ dirty'
                 /\ Identity(dog') = Identity(dog)
                 /\ Position(dog') = Position(dog)]_vars

\* C16 witness: the instance created by loadOrCreateDog has since been moved
\* by a tick, and the tick interval is armed while the clock is inactive.
C16_Witness ==
  /\ dog # NoDog /\ dirty /\ tickIntervals # {} /\ ~isActiveHours
  /\ lastWrite[dog.dateKey] = "set"
  /\ Position(dog) # Position(dogsDb[dog.dateKey])

\* C17: at most one tick interval and at most one flush interval are armed,
\* and an armed interval is the one tickTimer / writeTimer refers to.
C17_OneIntervalOfAKind ==
  /\ Cardinality(tickIntervals) <= 1 /\ tickIntervals \subseteq {tickTimer}
  /\ Cardinality(writeIntervals) <= 1 /\ writeIntervals \subseteq {writeTimer}

\* C18: when a flush's write completes and the instance has been changed
\* since that flush took its snapshot, the change is not lost: dirty is
\* true, or a later flush still outstanding carries the instance as it is.
C18_MutationDuringFlushNotLost ==
  [][\A i \in 1..MaxFlightsHour :
       (/\ FlushDone(i)
        /\ dog # NoDog /\ dog.dateKey = flights[i].key
        /\ Snapshot(dog) # flights[i])
       => (dirty' \/ \E j \in DOMAIN flights' : flights'[j] = Snapshot(dog'))]_vars

\* C19: a watcher call of startLoop that rejects leaves wasActive inactive
\* and its callback finished, so that the next poll sees the edge again; and
\* if from some point on the store is reachable and the clock active, an
\* instance eventually is live with both intervals armed.
C19_ActivationRetried ==
  /\ [][\A p \in Polls :
          (InProgress(p) /\ ~InProgress(p)' /\ dog' = NoDog)
            => (~wasActive' /\ procs'[p].pc = "idle")]_vars
  /\ (<>[](storeUp /\ isActiveHours)
        => <>(dog # NoDog /\ tickTimer # 0 /\ writeTimer # 0))

\* C19 witness: at 10:00 the watcher has polled, its startLoop has rejected,
\* and wasActive is still inactive with the callback finished.
C19_Witness ==
  /\ hour = 10 /\ polled /\ ~wasActive /\ dog = NoDog
  /\ \A p \in Polls : procs[p].pc = "idle"

\* C20: with every publish write succeeding, whenever nothing of the lifecycle
\* is pending the published pointer agrees with memory: active is true exactly
\* when an instance is live, and then its dateKey is the instance's dateKey.
C20_PointerAgreesWithMemory ==
  Quiescent =>
    /\ metaDb.exists
    /\ metaDb.active <=> dog # NoDog
    /\ metaDb.active => metaDb.dateKey = dog.dateKey

====
